---- MODULE Spec2Model ----
(***************************************************************************)
(* A model of irctest's test-case base classes (irctest/cases.py).         *)
(*                                                                         *)
(* Spec       : the client-testing role.  The harness listens, launches    *)
(*              the client under test and runs ClientNegociationHelper's   *)
(*              capability negotiation against whatever the client sends.  *)
(* ServerSpec : the server-testing role.  The harness launches a server    *)
(*              and keeps a dict of client connections to it.              *)
(* IoSpec     : a server test with one client: the lines the server sends  *)
(*              and what getLine, getMessage and getMessages read of them. *)
(* PeersSpec  : a server test with several clients that are written to,    *)
(*              read from and removed.                                     *)
(* OragonoSpec: OragonoController.run with its options (controllers/       *)
(*              oragono.py).                                               *)
(*                                                                         *)
(* Python strings are sequences of one-character strings, so that          *)
(* str.split(), slicing and str.format() are computed, not assumed.        *)
(* A value that may be None or missing is None (<<>>) or Some(v) (<<v>>).  *)
(***************************************************************************)
EXTENDS Integers, Sequences, FiniteSets, TLC

VARIABLES
    \* ---- client-testing role (BaseClientTestCase + ClientNegociationHelper)
    pc,                 \* where the test body is in negotiateCapabilities
    calls,              \* number of negotiateCapabilities calls made so far
    proc,               \* the controller's process: "none", "running", "killed"
    conn,               \* self.conn: "none" (no attribute yet), "open", "closed"
    server,             \* self.server, the listening socket: "listening", "closed"
    teardowns,          \* number of tearDown calls made so far
    teardown_error,     \* the exception that ended a tearDown call, "" if none
    events,             \* what the client role did to its sockets and its
                        \* controller so far, in order
    protocol_version,   \* self.protocol_version: "unset", "301", "302", "None"
    capabilities,       \* the capabilities argument of the call in progress
    capability_names,   \* the local capability_names of the current call
    acked_capabilities, \* self.acked_capabilities: None (never assigned) or Some(set)
    nick,               \* self.nick: None or Some(string)
    user,               \* self.user: None or Some(list of strings)
    sent,               \* every payload handed to conn.sendall, in order
    received,           \* every message getMessage parsed from the client, in order
    loop_start,         \* Len(received) when the current call entered its while loop
    ret,                \* what negotiateCapabilities returned: None or Some(message)
    failure,            \* the exception that ended the test body, "" if none
    \* ---- server-testing role (BaseServerTestCase)
    phase,              \* "setUp", "skipped", "test", "aborted", "done"
    srv_proc,           \* the server controller's process: "none", "running", "killed"
    clients,            \* self.clients: name -> index of its connection in conns
    conns,              \* every connection addClient opened: "open" or "closed"
    last_added,         \* what the last addClient returned: None or Some(name)
    io,                 \* per connection: the socket's unread lines, the lines
                        \* conn_file has buffered, whether the server closed it,
                        \* its blocking mode, what sendLine wrote to it, and
                        \* all the lines the server sent on it (wire) and the
                        \* reads returned from it (got), in order, and the
                        \* lines a suspended getLines generator has yet to
                        \* yield (gen, None without such a generator)
    op,                 \* the getMessage or getLines call in progress or last made
    result,             \* what the last completed read returned or raised
    lines_sent,         \* number of lines the server has sent so far
    last_call,          \* the last harness method the test called, and its client
    srv_events,         \* what the server role did to its sockets and its
                        \* controller so far, in order
    \* ---- the Oragono controller (OragonoController)
    oragono             \* self.proc, whether server.yml was written, and the
                        \* calls of run so far: their number, the options and
                        \* the outcome of the last one

client_vars == <<pc, calls, proc, conn, protocol_version, capabilities,
                 capability_names, acked_capabilities, nick, user, sent,
                 received, loop_start, ret, failure, server, teardowns,
                 teardown_error, events>>
server_vars == <<phase, srv_proc, clients, conns, last_added, io, op, result,
                 lines_sent, last_call, srv_events>>
vars == <<client_vars, server_vars, oragono>>

None == <<>>
Some(v) == <<v>>

\* ------------------------------------------------------------------ bounds

\* Messages read from the client under test in one test.
MaxMsgs == 3
\* Calls of negotiateCapabilities in one test.
MaxCalls == 2
\* Connections addClient opens in one test.
MaxConns == 3
\* Calls of BaseClientTestCase.tearDown on one test case.
MaxTearDowns == 2
\* Calls of OragonoController.run on one controller.
MaxRuns == 2
\* Connections addClient opens in a test that reads and writes lines.
MaxPeers == 2
\* Lines the server sends in one test.
MaxLines == 3
\* Lines the server sends in a test with several clients.
MaxPeerLines == 2
\* recv calls of one getLines.
MaxPolls == 2
\* Payloads written to a connection before the last sendLine to it.
MaxWrites == 1

\* ------------------------------------------------------------------ strings

Min(a, b) == IF a < b THEN a ELSE b

\* s repeated n times.
Rep(s, n) == [i \in 1..(n * Len(s)) |-> s[((i - 1) % Len(s)) + 1]]

\* The whitespace str.split() splits at; the space is the one in the alphabet.
Whitespace == {" "}

\* str.split(): the maximal runs of non-whitespace characters, in order.
\* TokenStarts are the positions where a run starts, TokenEnd(s, i) is
\* the last position of the run that starts at i.
TokenStarts(s) ==
    {i \in 1..Len(s) : s[i] \notin Whitespace
                       /\ (i = 1 \/ s[i - 1] \in Whitespace)}

TokenEnd(s, i) ==
    CHOOSE j \in i..Len(s) :
        /\ (j = Len(s) \/ s[j + 1] \in Whitespace)
        /\ \A k \in i..j : s[k] \notin Whitespace

\* x.split('=')[0]: the characters before the first '=' (all of x without one).
BeforeEquals(x) ==
    IF \E i \in 1..Len(x) : x[i] = "="
    THEN SubSeq(x, 1, (CHOOSE i \in 1..Len(x) :
                          x[i] = "=" /\ \A j \in 1..(i - 1) : x[j] # "=") - 1)
    ELSE x

\* sep.join(items)
RECURSIVE Join(_, _)
Join(items, sep) ==
    IF items = <<>> THEN <<>>
    ELSE IF Len(items) = 1 THEN items[1]
    ELSE items[1] \o sep \o Join(Tail(items), sep)

\* The concatenation of a sequence of strings.
RECURSIVE Concat(_)
Concat(ss) == IF ss = <<>> THEN <<>> ELSE Head(ss) \o Concat(Tail(ss))

CRLF == <<"\r", "\n">>

EndsWithCRLF(line) ==
    Len(line) >= 2 /\ SubSeq(line, Len(line) - 1, Len(line)) = CRLF

\* ------------------------------------------------------------------ literals

sLS == <<"L", "S">>
s302 == <<"3", "0", "2">>
sEND == <<"E", "N", "D">>
sREQ == <<"R", "E", "Q">>
sLIST == <<"L", "I", "S", "T">>
sStar == <<"*">>
sCAPsp == <<"C", "A", "P", " ">>
sCAPStarLS == <<"C", "A", "P", " ", "*", " ", "L", "S", " ", ":">>
sNAK == <<" ", "N", "A", "K", " ", ":">>
sACK == <<" ", "A", "C", "K", " ", ":">>

\* ------------------------------------------------------------------ inputs

Msg(c, p) == [command |-> c, params |-> p]

\* The capabilities lists the tests offer.
Offers == { << <<"a">>, <<"b">> >>,
            << <<"a", "=", "v">>, <<"b">> >>,
            << <<"b">> >> }

\* The parameter of a CAP REQ the client may send.
ReqStrings == { <<"a">>,
                <<"a", " ", "c">>,
                <<"a", "=", "v">>,
                Rep(<<"a", " ", "b", " ">>, 26),
                Rep(<<"x">>, 100),
                Rep(<<"x">>, 101) }

\* What the client under test may send, as message_parser.parse_message
\* returns it.
ClientMessages ==
    {Msg("CAP", <<sREQ, r>>) : r \in ReqStrings}
    \cup { Msg("CAP", <<sLS>>),
           Msg("CAP", <<sLS, s302>>),
           Msg("CAP", <<sEND>>),
           Msg("CAP", <<sLIST>>),
           Msg("CAP", <<>>),
           Msg("CAP", <<sREQ>>),
           Msg("CAP", <<sREQ, <<"a">>, <<"b">> >>),
           Msg("NICK", << <<"x">> >>),
           Msg("NICK", << <<>> >>),
           Msg("NICK", << <<"x">>, <<"y">> >>),
           Msg("USER", << <<"a">>, <<"b">>, <<"c">>, <<"d">> >>),
           Msg("USER", << <<"a">>, <<"b">>, <<"c">> >>),
           Msg("PING", << <<"x">> >>) }

\* ------------------------------------------------------------------ client role

\* BaseClientTestCase.sendLine: the line, then CRLF unless the line ends
\* with it; each is one conn.sendall.
SendLine(s, line) ==
    IF EndsWithCRLF(line) THEN Append(s, line)
    ELSE Append(Append(s, line), CRLF)

\* A readCapLs without its elif m.params == ['END'] branch.
ProtocolVersionNoEnd(params) ==
    IF params = <<sLS>> THEN "301"
    ELSE IF params = <<sLS, s302>> THEN "302"
    ELSE "unknown"

\* A readCapLs that takes any CAP LS for version 301.
ProtocolVersionIgnoresParam(params) ==
    IF params # <<>> /\ params[1] = sLS THEN "301"
    ELSE IF params = <<sEND>> THEN "None"
    ELSE "unknown"

\* readCapLs: the protocol version the first CAP message's params select,
\* "unknown" when they raise AssertionError('Unknown CAP params').
ProtocolVersionOf(params) ==
    IF params = <<sLS>> THEN "301"
    ELSE IF params = <<sLS, s302>> THEN "302"
    ELSE IF params = <<sEND>> THEN "None"
    ELSE "unknown"

\* A readCapLs without its assertEqual on the first command.
FirstMessageUnchecked(m) == TRUE

\* readCapLs: assertEqual(m.command, 'CAP', 'First message is not CAP LS.')
FirstMessageAccepted(m) == m.command = "CAP"

\* {x.split('=')[0] for x in capabilities}
CapabilityNamesUnstripped(caps) == {caps[i] : i \in 1..Len(caps)}
CapabilityNames(caps) == {BeforeEquals(caps[i]) : i \in 1..Len(caps)}

\* 'CAP * LS :{}'.format(' '.join(capabilities))
LsLinePerCapability(caps) ==
    Join([i \in 1..Len(caps) |-> sCAPStarLS \o caps[i]], CRLF)
LsLine(caps) == sCAPStarLS \o Join(caps, <<" ">>)

\* frozenset(m.params[1].split()): the set of the runs str.split() yields.
Requested(p) == {SubSeq(p, i, TokenEnd(p, i)) : i \in TokenStarts(p)}

\* A test for "some requested capability is offered" instead of "all are".
ReqAcceptedIfAnyOffered(requested, names) == requested \cap names # {}

\* No test at all: every request is acknowledged.
ReqAcceptedAlways(requested, names) == TRUE

\* not (not requested.issubset(capability_names))
ReqAccepted(requested, names) == requested \subseteq names

\* self.nick or '*'
NickOrStar(n) == IF n = None \/ n[1] = <<>> THEN sStar ELSE n[1]

\* A NAK that echoes the request uncut.
NakEchoUncut(p) == p

\* m.params[1][0:100]
NakLimit == 100
NakEcho(p) == SubSeq(p, 1, Min(Len(p), NakLimit))

\* 'CAP {} NAK :{}'.format(self.nick or '*', m.params[1][0:100])
NakLine(n, p) == sCAPsp \o NickOrStar(n) \o sNAK \o NakEcho(p)

\* An ACK that cuts the request as the NAK does.
AckLineCut(n, p) == sCAPsp \o NickOrStar(n) \o sACK \o NakEcho(p)

\* 'CAP {} ACK :{}'.format(self.nick or '*', m.params[1])
AckLine(n, p) == sCAPsp \o NickOrStar(n) \o sACK \o p

\* self.acked_capabilities.update(requested)
AckedUpdate(acked, requested) == Some(acked[1] \cup requested)

\* A predicate that captures NICK and USER whatever their parameter count.
UserNickPredicateUnchecked(m) ==
    IF m.command = "NICK" THEN "nick"
    ELSE IF m.command = "USER" THEN "user"
    ELSE "pass"

\* userNickPredicate: "nick"/"user" when the message is captured (the
\* predicate returns False), "fail" when its assertEqual on len(msg.params)
\* fails, "pass" when the predicate returns True.
UserNickPredicate(m) ==
    IF m.command = "NICK"
    THEN (IF Len(m.params) = 1 THEN "nick" ELSE "fail")
    ELSE IF m.command = "USER"
    THEN (IF Len(m.params) = 4 THEN "user" ELSE "fail")
    ELSE "pass"

\* A loop that asserts on a CAP subcommand other than REQ instead of
\* returning the message.
LoopOutcomeRejectsSubcommands(m, names) ==
    IF m.command # "CAP" THEN "return"
    ELSE IF ~(Len(m.params) > 0) THEN "assert"
    ELSE IF m.params[1] = sREQ
    THEN (IF Len(m.params) # 2 THEN "assert"
          ELSE IF ~ReqAccepted(Requested(m.params[2]), names) THEN "nak"
          ELSE "ack")
    ELSE "assert"

\* The while loop of negotiateCapabilities on a message the predicate let
\* through: "return", "assert" (a failed assertGreater/assertEqual), "nak"
\* or "ack".
LoopOutcome(m, names) ==
    IF m.command # "CAP" THEN "return"
    ELSE IF ~(Len(m.params) > 0) THEN "assert"
    ELSE IF m.params[1] = sREQ
    THEN (IF Len(m.params) # 2 THEN "assert"
          ELSE IF ~ReqAccepted(Requested(m.params[2]), names) THEN "nak"
          ELSE "ack")
    ELSE "return"

\* What controller.run(hostname, port, auth) does when no process runs yet:
\* it spawns the client, or raises NotImplementedByController for an
\* authentication it cannot configure.
ControllerRunResults == {"started", "unsupported"}

\* The exception of a controller that does not implement what it was asked.
NotImplementedByController == "SkipTest: NotImplementedByController"

\* b'QUIT :end of test.'
QuitPayload == <<"Q", "U", "I", "T", " ", ":", "e", "n", "d", " ", "o", "f",
                 " ", "t", "e", "s", "t", ".">>

\* SopelController.kill: if self.proc: self.proc.kill()
KillProc(p) == IF p = "none" THEN "none" ELSE "killed"

\* _setUpServer, which setUp has run: socket, bind(('', 0)), listen(1).
SetUpServerEvents == <<"bind", "listen">>

\* readCapLs up to its first read: getsockname, controller.run and, when run
\* has returned, acceptClient.
ReadCapLsEventsAcceptFirst(run) == <<"accept", "getsockname", "run">>
ReadCapLsEvents(run) ==
    IF run = "started" THEN <<"getsockname", "run", "accept">>
    ELSE <<"getsockname", "run">>

ClientInit ==
    /\ pc = "idle"
    /\ calls = 0
    /\ proc = "none"
    /\ conn = "none"
    /\ protocol_version = "unset"
    /\ capabilities = <<>>
    /\ capability_names = {}
    /\ acked_capabilities = None
    /\ nick = None
    /\ user = None
    /\ sent = <<>>
    /\ received = <<>>
    /\ loop_start = 0
    /\ ret = None
    /\ failure = ""
    /\ server = "listening"
    /\ teardowns = 0
    /\ teardown_error = ""
    /\ events = SetUpServerEvents

\* negotiateCapabilities(capabilities, cap_ls), up to its first blocking read.
\* With cap_ls it enters readCapLs: controller.run (which asserts that no
\* process runs yet) and acceptClient.  Without, it goes to the loop, whose
\* getMessage needs the connection an earlier readCapLs accepted.
NegotiateCapabilities(caps, cap_ls) ==
    /\ pc \in {"idle", "returned", "skipped"}
    /\ teardowns = 0
    /\ calls < MaxCalls
    /\ calls' = calls + 1
    /\ ret' = None
    /\ UNCHANGED <<protocol_version, nick, user, sent, received, server,
                   teardowns, teardown_error>>
    /\ IF cap_ls
       THEN /\ UNCHANGED <<capability_names, acked_capabilities, loop_start>>
            /\ IF proc = "none"
               THEN \E run \in ControllerRunResults :
                        /\ events' = events \o ReadCapLsEvents(run)
                        /\ IF run = "started"
                           THEN /\ proc' = "running"
                                /\ conn' = "open"
                                /\ capabilities' = caps
                                /\ pc' = "awaiting_ls"
                                /\ failure' = failure
                           ELSE /\ pc' = "failed"
                                /\ failure' = NotImplementedByController
                                /\ UNCHANGED <<proc, conn, capabilities>>
               ELSE /\ pc' = "failed"
                    /\ failure' = "AssertionError: proc is not None"
                    /\ events' = events \o ReadCapLsEvents("raised")
                    /\ UNCHANGED <<proc, conn, capabilities>>
       ELSE /\ capabilities' = caps
            /\ capability_names' = CapabilityNames(caps)
            /\ acked_capabilities' = Some({})
            /\ loop_start' = Len(received)
            /\ UNCHANGED <<proc, conn, events>>
            /\ IF conn = "open"
               THEN pc' = "negotiating" /\ failure' = failure
               ELSE pc' = "failed" /\ failure' = "AttributeError: conn_file"

\* readCapLs from m = self.getMessage() on, then negotiateCapabilities up to
\* the first getMessage of its loop.
ReadCapLs(m) ==
    /\ events' = events
    /\ pc = "awaiting_ls"
    /\ Len(received) < MaxMsgs
    /\ received' = Append(received, m)
    /\ UNCHANGED <<calls, proc, conn, capabilities, nick, user, ret, server,
                   teardowns, teardown_error>>
    /\ IF ~FirstMessageAccepted(m)
       THEN /\ pc' = "failed"
            /\ failure' = "AssertionError: First message is not CAP LS."
            /\ UNCHANGED <<protocol_version, capability_names,
                           acked_capabilities, sent, loop_start>>
       ELSE IF ProtocolVersionOf(m.params) = "unknown"
       THEN /\ pc' = "failed"
            /\ failure' = "AssertionError: Unknown CAP params"
            /\ UNCHANGED <<protocol_version, capability_names,
                           acked_capabilities, sent, loop_start>>
       ELSE /\ protocol_version' = ProtocolVersionOf(m.params)
            /\ failure' = failure
            /\ IF protocol_version' = "None"
               THEN /\ pc' = "skipped"
                    /\ UNCHANGED <<capability_names, acked_capabilities,
                                   sent, loop_start>>
               ELSE /\ sent' = SendLine(sent, LsLine(capabilities))
                    /\ capability_names' = CapabilityNames(capabilities)
                    /\ acked_capabilities' = Some({})
                    /\ loop_start' = Len(received')
                    /\ pc' = "negotiating"

\* One getLine of the loop's getMessage(filter_pred=self.userNickPredicate)
\* and all that follows it up to the next getLine.
LoopRead(m) ==
    /\ events' = events
    /\ pc = "negotiating"
    /\ Len(received) < MaxMsgs
    /\ received' = Append(received, m)
    /\ UNCHANGED <<calls, proc, conn, protocol_version, capabilities,
                   capability_names, loop_start, server, teardowns,
                   teardown_error>>
    /\ LET p == UserNickPredicate(m)
           o == LoopOutcome(m, capability_names)
       IN  IF p = "fail"
           THEN /\ pc' = "failed"
                /\ failure' = "AssertionError: len(msg.params)"
                /\ UNCHANGED <<acked_capabilities, nick, user, sent, ret>>
           ELSE IF p = "nick"
           THEN /\ nick' = Some(m.params[1])
                /\ UNCHANGED <<pc, acked_capabilities, user, sent, ret, failure>>
           ELSE IF p = "user"
           THEN /\ user' = Some(m.params)
                /\ UNCHANGED <<pc, acked_capabilities, nick, sent, ret, failure>>
           ELSE IF o = "return"
           THEN /\ ret' = Some(m)
                /\ pc' = "returned"
                /\ UNCHANGED <<acked_capabilities, nick, user, sent, failure>>
           ELSE IF o = "assert"
           THEN /\ pc' = "failed"
                /\ failure' = "AssertionError: len(m.params)"
                /\ UNCHANGED <<acked_capabilities, nick, user, sent, ret>>
           ELSE IF o = "nak"
           THEN /\ sent' = SendLine(sent, NakLine(nick, m.params[2]))
                /\ UNCHANGED <<pc, acked_capabilities, nick, user, ret, failure>>
           ELSE /\ sent' = SendLine(sent, AckLine(nick, m.params[2]))
                /\ acked_capabilities' =
                       AckedUpdate(acked_capabilities, Requested(m.params[2]))
                /\ UNCHANGED <<pc, nick, user, ret, failure>>

\* BaseClientTestCase.tearDown, run when the test body has returned or raised.
\* Its first statement writes to self.conn, which exists only once
\* acceptClient has run and raises OSError once it is closed; an exception
\* there ends tearDown before the statements that kill and close.
ClientTearDown ==
    /\ events' = events
    /\ pc \in {"idle", "returned", "skipped", "failed"}
    /\ teardowns < MaxTearDowns
    /\ teardowns' = teardowns + 1
    /\ UNCHANGED <<pc, calls, protocol_version, capabilities, capability_names,
                   acked_capabilities, nick, user, received, loop_start, ret,
                   failure>>
    /\ IF conn = "none"
       THEN /\ teardown_error' = "AttributeError: conn"
            /\ UNCHANGED <<sent, proc, conn, server>>
       ELSE IF conn = "closed"
       THEN /\ teardown_error' = "OSError: Bad file descriptor"
            /\ UNCHANGED <<sent, proc, conn, server>>
       ELSE /\ sent' = Append(sent, QuitPayload)
            /\ proc' = KillProc(proc)
            /\ conn' = "closed"
            /\ server' = "closed"
            /\ teardown_error' = ""

\* ------------------------------------------------------------------ server role

\* A key of self.clients: a Python int or a Python str.
IntName(n) == [kind |-> "int", num |-> n, text |-> <<>>]
StrName(t) == [kind |-> "str", num |-> 0, text |-> t]

\* The name argument of addClient and removeClient in the tests; NoName is
\* the default None.
NoName == [kind |-> "none", num |-> 0, text |-> <<>>]
NameInputs == { IntName(0), IntName(1), IntName(2),
                StrName(<<"f", "o", "o">>), StrName(<<"2">>) }

\* not name: None, 0 and '' are false.
Falsy(name) ==
    \/ name.kind = "none"
    \/ name.kind = "int" /\ name.num = 0
    \/ name.kind = "str" /\ name.text = <<>>

Digits == <<"0", "1", "2", "3", "4", "5", "6", "7", "8", "9">>
DigitValue(c) == (CHOOSE d \in 1..10 : Digits[d] = c) - 1

RECURSIVE DecimalValue(_)
DecimalValue(t) ==
    IF t = <<>> THEN 0
    ELSE 10 * DecimalValue(SubSeq(t, 1, Len(t) - 1)) + DigitValue(t[Len(t)])

\* int(key): the int itself, the value of a str of decimal digits, and None
\* where int() raises ValueError.
IntOf(name) ==
    IF name.kind = "int" THEN Some(name.num)
    ELSE IF name.text # <<>> /\ \A i \in 1..Len(name.text) :
                                    \E d \in 1..10 : Digits[d] = name.text[i]
    THEN Some(DecimalValue(name.text))
    ELSE None

SetMax(S) == CHOOSE x \in S : \A y \in S : y <= x

\* max(map(int, list(self.clients)+[0]))+1
NextFreeName(cl) ==
    IntName(SetMax({IntOf(k)[1] : k \in DOMAIN cl} \cup {0}) + 1)

\* self.clients[name].conn.close()
ConnsAfterRemoveClosesAll(cs, cl, name) == [i \in DOMAIN cs |-> "closed"]
ConnsAfterRemove(cs, cl, name) == [cs EXCEPT ![cl[name]] = "closed"]

\* del self.clients[name]
ClientsAfterRemove(cl, name) == [k \in DOMAIN cl \ {name} |-> cl[k]]

\* for client in list(self.clients): self.removeClient(client)
RECURSIVE ConnsAfterRemoveAll(_, _, _)
ConnsAfterRemoveAll(cs, cl, names) ==
    IF names = {} THEN cs
    ELSE LET n == CHOOSE x \in names : TRUE
         IN  ConnsAfterRemoveAll(ConnsAfterRemove(cs, cl, n),
                                 ClientsAfterRemove(cl, n), names \ {n})

RECURSIVE ClientsAfterRemoveAll(_, _)
ClientsAfterRemoveAll(cl, names) ==
    IF names = {} THEN cl
    ELSE LET n == CHOOSE x \in names : TRUE
         IN  ClientsAfterRemoveAll(ClientsAfterRemove(cl, n), names \ {n})

\* A line of the server: its command and, standing for the rest of the
\* line, its number in the order the server sent its lines.
Line(n, command) == [id |-> n, command |-> command]
Commands == {"NOTICE", "PRIVMSG"}

\* What the test hands to sendLine: with and without its line ending.
LinesToSend == { <<"P", "I", "N", "G", " ", "x">>,
                 <<"P", "I", "N", "G", " ", "x", "\r", "\n">> }

\* A connection as addClient leaves it.
NewIo == [sock |-> <<>>, file |-> <<>>, eof |-> FALSE, blocking |-> TRUE,
          out |-> <<>>, wire |-> <<>>, got |-> <<>>, gen |-> None]

\* No getMessage or getLines call made yet.  A call sets pc to its name for
\* as long as it runs; its client, its filter_pred, getLines' data and number
\* of recv calls, and the lines getMessage's filter rejected stay readable
\* when it has ended.
Idle == [pc |-> "idle", client |-> NoName, pred |-> "none", data |-> <<>>,
         polls |-> 0, dropped |-> <<>>, mode |-> "list"]

Call(name, client) == [name |-> name, client |-> client]

\* The value a read returned (kind "line", "message" or "messages", with the
\* lines it is made of; the line '' is kind "line" with no lines) or the
\* exception it raised.
Returned(kind, lines) == [kind |-> kind, lines |-> lines, error |-> ""]
Raised(error) == [kind |-> "error", lines |-> <<>>, error |-> error]
NoResult == [kind |-> "none", lines |-> <<>>, error |-> ""]

\* message_parser.parse_message(line)
ParseMessage(line) == [command |-> line.command, params |-> <<line.id>>]

\* The filter_pred arguments of getMessage: none, and getCapLs's
\* lambda m: m.command != 'NOTICE'.
Preds == {"none", "notNotice"}
ApplyPred(pred, msg) == msg.command # "NOTICE"

\* if not filter_pred or filter_pred(msg): return msg
FilterAcceptsWhenFalse(pred, msg) == pred = "none" \/ ~ApplyPred(pred, msg)
FilterAccepts(pred, msg) == pred = "none" \/ ApplyPred(pred, msg)

\* conn_file.readline() on a blocking socket: the next buffered line; with
\* nothing buffered the reader takes what the socket holds, and at the end of
\* the stream it returns ''.  It blocks while there is neither, unless the
\* socket is non-blocking: the reader then finds nothing and returns ''.
CanReadline(r) == r.file # <<>> \/ r.sock # <<>> \/ r.eof \/ ~r.blocking
ReadlineValue(r) ==
    IF r.file # <<>> THEN <<r.file[1]>>
    ELSE IF r.sock # <<>> THEN <<r.sock[1]>>
    ELSE <<>>
AfterReadline(r) ==
    IF r.file # <<>> THEN [r EXCEPT !.file = Tail(@), !.got = Append(@, r.file[1])]
    ELSE IF r.sock # <<>>
    THEN [r EXCEPT !.file = Tail(r.sock), !.sock = <<>>,
                   !.got = Append(@, r.sock[1])]
    ELSE r

ServerInit ==
    /\ phase = "setUp"
    /\ srv_proc = "none"
    /\ clients = [k \in {} |-> 0]
    /\ conns = <<>>
    /\ last_added = None
    /\ io = <<>>
    /\ op = Idle
    /\ result = NoResult
    /\ lines_sent = 0
    /\ last_call = Call("none", NoName)
    /\ srv_events = <<>>

\* setUp's find_hostname_and_port, then its controller.run.
SetUpEvents == <<"discover", "run">>

\* BaseServerTestCase.setUp: find_hostname_and_port, controller.run and
\* self.clients = {}.  An exception of controller.run ends setUp, and
\* unittest runs neither the test body nor tearDown after it.
SetUp ==
    /\ phase = "setUp"
    /\ srv_events' = srv_events \o SetUpEvents
    /\ last_call' = Call("setUp", NoName)
    /\ UNCHANGED <<conns, last_added, io, op, result, lines_sent>>
    /\ \E run \in ControllerRunResults :
           IF run = "started"
           THEN /\ srv_proc' = "running"
                /\ clients' = [k \in {} |-> 0]
                /\ phase' = "test"
           ELSE /\ phase' = "skipped"
                /\ UNCHANGED <<srv_proc, clients>>

\* addClient(name).  Without a name the next integer is computed, and int()
\* raises ValueError on a key that is no number.  The new Client is stored
\* under the name; a Client already stored there is dropped without a close,
\* so its socket is closed only if and when the runtime finalizes it.
AddClient(name) ==
    /\ phase = "test"
    /\ Len(conns) < MaxConns
    /\ last_call' = Call("addClient", name)
    /\ UNCHANGED <<op, result, lines_sent>>
    /\ IF Falsy(name) /\ \E k \in DOMAIN clients : IntOf(k) = None
       THEN /\ phase' = "aborted"
            /\ UNCHANGED <<srv_proc, clients, conns, last_added, io,
                           srv_events>>
       ELSE LET n == IF Falsy(name) THEN NextFreeName(clients) ELSE name
                c == Len(conns) + 1
            IN  /\ clients' = [k \in DOMAIN clients \cup {n} |->
                                  IF k = n THEN c ELSE clients[k]]
                /\ \E fate \in {"open", "closed"} :
                       conns' = Append(
                           IF n \in DOMAIN clients
                           THEN [conns EXCEPT ![clients[n]] =
                                    IF @ = "open" THEN fate ELSE @]
                           ELSE conns,
                           "open")
                /\ io' = Append(io, NewIo)
                /\ srv_events' = Append(srv_events, "connect")
                /\ last_added' = Some(n)
                /\ UNCHANGED <<phase, srv_proc>>

\* removeClient(name)
RemoveClient(name) ==
    /\ srv_events' = srv_events
    /\ phase = "test"
    /\ last_call' = Call("removeClient", name)
    /\ UNCHANGED <<io, op, result, lines_sent>>
    /\ IF name \in DOMAIN clients
       THEN /\ conns' = ConnsAfterRemove(conns, clients, name)
            /\ clients' = ClientsAfterRemove(clients, name)
            /\ UNCHANGED <<phase, srv_proc, last_added>>
       ELSE /\ phase' = "aborted"
            /\ UNCHANGED <<srv_proc, clients, conns, last_added>>

\* BaseServerTestCase.tearDown, which unittest runs when the test body has
\* returned or raised.
TearDown ==
    /\ srv_events' = srv_events
    /\ phase \in {"test", "aborted"}
    /\ srv_proc' = "killed"
    /\ conns' = ConnsAfterRemoveAll(conns, clients, DOMAIN clients)
    /\ clients' = ClientsAfterRemoveAll(clients, DOMAIN clients)
    /\ phase' = "done"
    /\ last_call' = Call("tearDown", NoName)
    /\ UNCHANGED <<last_added, io, op, result, lines_sent>>

\* The server under test writes one more line to a connection.
ServerSends(c, command) ==
    /\ srv_events' = srv_events
    /\ phase = "test"
    /\ lines_sent < MaxLines
    /\ conns[c] = "open" /\ ~io[c].eof
    /\ lines_sent' = lines_sent + 1
    /\ io' = [io EXCEPT ![c].sock = Append(@, Line(lines_sent + 1, command)),
                        ![c].wire = Append(@, Line(lines_sent + 1, command))]
    /\ UNCHANGED <<phase, srv_proc, clients, conns, last_added, op, result,
                   last_call>>

\* The server under test closes a connection.
ServerCloses(c) ==
    /\ srv_events' = srv_events
    /\ phase = "test"
    /\ conns[c] = "open" /\ ~io[c].eof
    /\ io' = [io EXCEPT ![c].eof = TRUE]
    /\ UNCHANGED <<phase, srv_proc, clients, conns, last_added, op, result,
                   lines_sent, last_call>>

\* sendLine(client, line); self.clients[client] raises KeyError for a name
\* that is not in the dict.
ServerSendLine(name, line) ==
    /\ srv_events' = srv_events
    /\ phase = "test" /\ op.pc = "idle"
    /\ name \in DOMAIN clients => Len(io[clients[name]].out) < MaxWrites
    /\ last_call' = Call("sendLine", name)
    /\ UNCHANGED <<srv_proc, clients, conns, last_added, op, lines_sent>>
    /\ IF name \in DOMAIN clients
       THEN /\ io' = [io EXCEPT ![clients[name]].out = SendLine(@, line)]
            /\ UNCHANGED <<phase, result>>
       ELSE /\ phase' = "aborted"
            /\ result' = Raised("KeyError")
            /\ io' = io

\* getLine(client), called by the test itself.
GetLine(name) ==
    /\ srv_events' = srv_events
    /\ phase = "test" /\ op.pc = "idle"
    /\ last_call' = Call("getLine", name)
    /\ UNCHANGED <<srv_proc, clients, conns, last_added, op, lines_sent>>
    /\ IF name \in DOMAIN clients
       THEN /\ CanReadline(io[clients[name]])
            /\ result' = Returned("line", ReadlineValue(io[clients[name]]))
            /\ io' = [io EXCEPT ![clients[name]] = AfterReadline(@)]
            /\ phase' = phase
       ELSE /\ phase' = "aborted"
            /\ result' = Raised("AssertionError")
            /\ io' = io

\* getMessage(client, filter_pred=pred), up to its first getLine.
GetMessage(name, pred) ==
    /\ srv_events' = srv_events
    /\ phase = "test" /\ op.pc = "idle"
    /\ last_call' = Call("getMessage", name)
    /\ op' = [Idle EXCEPT !.pc = "getMessage", !.client = name, !.pred = pred]
    /\ result' = NoResult
    /\ UNCHANGED <<phase, srv_proc, clients, conns, last_added, io, lines_sent>>

\* One turn of getMessage's loop: getLine, parse_message, the filter.
\* parse_message raises on the '' that readline returns at the end of the
\* stream.
GetMessageRead ==
    /\ srv_events' = srv_events
    /\ phase = "test" /\ op.pc = "getMessage"
    /\ UNCHANGED <<srv_proc, clients, conns, last_added, lines_sent, last_call>>
    /\ IF op.client \notin DOMAIN clients
       THEN /\ phase' = "aborted"
            /\ result' = Raised("AssertionError")
            /\ op' = [op EXCEPT !.pc = "idle"]
            /\ io' = io
       ELSE LET c == clients[op.client]
                line == ReadlineValue(io[c])
            IN  /\ CanReadline(io[c])
                /\ io' = [io EXCEPT ![c] = AfterReadline(@)]
                /\ IF line = <<>>
                   THEN /\ phase' = "aborted"
                        /\ result' = Raised("MalformedMessageError")
                        /\ op' = [op EXCEPT !.pc = "idle"]
                   ELSE IF FilterAccepts(op.pred, ParseMessage(line[1]))
                   THEN /\ result' = Returned("message", line)
                        /\ op' = [op EXCEPT !.pc = "idle"]
                        /\ phase' = phase
                   ELSE /\ op' = [op EXCEPT !.dropped = @ \o line]
                        /\ UNCHANGED <<phase, result>>

\* getMessages(client) as a statement.  getLines is a generator function and
\* map is lazy: the call builds the iterator and runs nothing of getLines,
\* not even the lookup of the client.
GetMessagesStatement(name) ==
    /\ srv_events' = srv_events
    /\ phase = "test" /\ op.pc = "idle"
    /\ last_call' = Call("getMessages", name)
    /\ UNCHANGED <<phase, srv_proc, clients, conns, last_added, io, op, result,
                   lines_sent>>

\* list(getMessages(client)): the iteration starts getLines, which looks the
\* client up and makes its socket non-blocking.
GetLinesStart(name) ==
    /\ srv_events' = srv_events
    /\ phase = "test" /\ op.pc = "idle"
    /\ last_call' = Call("list(getMessages)", name)
    /\ UNCHANGED <<srv_proc, clients, conns, last_added, lines_sent>>
    /\ IF name \in DOMAIN clients
       THEN /\ op' = [Idle EXCEPT !.pc = "getLines", !.client = name]
            /\ io' = [io EXCEPT ![clients[name]].blocking = FALSE]
            /\ result' = NoResult
            /\ phase' = phase
       ELSE /\ phase' = "aborted"
            /\ result' = Raised("KeyError")
            /\ UNCHANGED <<io, op>>

\* One turn of getLines' while loop: sleep and recv.  recv returns what the
\* socket holds, returns b'' at the end of the stream, and raises
\* BlockingIOError when the socket holds nothing and the stream is not at its
\* end; only that exception leaves the loop, upon which the lines are yielded
\* and the socket is made blocking again.
GetLinesRecv ==
    /\ srv_events' = srv_events
    /\ phase = "test" /\ op.pc = "getLines"
    /\ (io[clients[op.client]].sock # <<>> \/ io[clients[op.client]].eof)
       => op.polls < MaxPolls
    /\ UNCHANGED <<phase, srv_proc, clients, conns, last_added, lines_sent,
                   last_call>>
    /\ LET c == clients[op.client]
       IN  IF io[c].sock # <<>>
           THEN /\ op' = [op EXCEPT !.data = @ \o io[c].sock, !.polls = @ + 1]
                /\ io' = [io EXCEPT ![c].sock = <<>>]
                /\ result' = result
           ELSE IF io[c].eof
           THEN /\ op' = [op EXCEPT !.polls = @ + 1]
                /\ UNCHANGED <<io, result>>
           ELSE IF op.mode = "next" /\ op.data # <<>>
           THEN /\ result' = Returned("message", <<op.data[1]>>)
                /\ io' = [io EXCEPT ![c].gen = Some(Tail(op.data)),
                                    ![c].got = Append(@, op.data[1])]
                /\ op' = [op EXCEPT !.pc = "idle", !.polls = @ + 1]
           ELSE /\ result' = Returned("messages", op.data)
                /\ io' = [io EXCEPT ![c].blocking = TRUE,
                                    ![c].got = @ \o op.data]
                /\ op' = [op EXCEPT !.pc = "idle", !.polls = @ + 1]

\* it = getMessages(client); next(it), which is also how a for loop over
\* getMessages(client) starts: getLines runs up to its first yield, where it
\* is suspended inside its try statement.  The test keeps one such iterator
\* per client.
GetLinesIterate(name) ==
    /\ srv_events' = srv_events
    /\ phase = "test" /\ op.pc = "idle"
    /\ name \in DOMAIN clients => io[clients[name]].gen = None
    /\ last_call' = Call("next(getMessages)", name)
    /\ UNCHANGED <<srv_proc, clients, conns, last_added, lines_sent>>
    /\ IF name \in DOMAIN clients
       THEN /\ op' = [Idle EXCEPT !.pc = "getLines", !.client = name,
                                  !.mode = "next"]
            /\ io' = [io EXCEPT ![clients[name]].blocking = FALSE]
            /\ result' = NoResult
            /\ phase' = phase
       ELSE /\ phase' = "aborted"
            /\ result' = Raised("KeyError")
            /\ UNCHANGED <<io, op>>

\* next(it) on the suspended generator of connection c: the next line, or
\* with none left the end of the for loop, the finally clause and
\* StopIteration.  setblocking raises on a socket removeClient has closed.
GetLinesResume(c) ==
    /\ srv_events' = srv_events
    /\ phase = "test" /\ op.pc = "idle"
    /\ io[c].gen # None
    /\ last_call' = Call("next", NoName)
    /\ UNCHANGED <<srv_proc, clients, conns, last_added, lines_sent, op>>
    /\ IF io[c].gen[1] # <<>>
       THEN /\ result' = Returned("message", <<io[c].gen[1][1]>>)
            /\ io' = [io EXCEPT ![c].gen = Some(Tail(io[c].gen[1])),
                                ![c].got = Append(@, io[c].gen[1][1])]
            /\ phase' = phase
       ELSE IF conns[c] = "open"
       THEN /\ result' = Returned("messages", <<>>)
            /\ io' = [io EXCEPT ![c].gen = None, ![c].blocking = TRUE]
            /\ phase' = phase
       ELSE /\ result' = Raised("OSError")
            /\ io' = [io EXCEPT ![c].gen = None]
            /\ phase' = "aborted"

\* The suspended generator of connection c is closed, by a break out of the
\* for loop or when the last reference to it goes: its finally clause runs.
GetLinesClose(c) ==
    /\ srv_events' = srv_events
    /\ phase = "test" /\ op.pc = "idle"
    /\ io[c].gen # None
    /\ last_call' = Call("close", NoName)
    /\ UNCHANGED <<srv_proc, clients, conns, last_added, lines_sent, op,
                   result, phase>>
    /\ io' = [io EXCEPT ![c].gen = None,
                        ![c].blocking = (conns[c] = "open") \/ @]

\* ------------------------------------------------------------------ the Oragono controller

\* The keyword arguments of OragonoController.run.  A list of METADATA keys
\* is None, empty or not.
Passwords == {None, Some(<<"p", "w">>)}
KeyLists == {None, Some(<<>>), Some(<< <<"k">> >>)}
RunOptions ==
    [password : Passwords, ssl : BOOLEAN, restricted_metadata_keys : KeyLists,
     valid_metadata_keys : KeyLists, invalid_metadata_keys : KeyLists]
DefaultOptions ==
    [password |-> None, ssl |-> FALSE, restricted_metadata_keys |-> None,
     valid_metadata_keys |-> None, invalid_metadata_keys |-> None]

\* The truth value of a list argument: None and [] are false.
Truthy(keys) == keys # None /\ keys[1] # <<>>

\* The checks run makes before it does anything, in their order: "" when
\* none of them raises.
RunRejects(o) ==
    IF Truthy(o.valid_metadata_keys) \/ Truthy(o.invalid_metadata_keys)
    THEN "Defining valid and invalid METADATA keys."
    ELSE IF o.password # None THEN "PASS command"
    ELSE IF o.ssl THEN "SSL"
    ELSE ""

OragonoInit ==
    oragono = [proc |-> "none", config |-> FALSE, runs |-> 0,
               options |-> DefaultOptions, outcome |-> "none"]

\* OragonoController.run(hostname, port, **o)
OragonoRun(o) ==
    /\ oragono.runs < MaxRuns
    /\ oragono' =
         LET called == [oragono EXCEPT !.runs = @ + 1, !.options = o]
         IN  IF RunRejects(o) # ""
             THEN [called EXCEPT !.outcome = NotImplementedByController]
             ELSE IF oragono.proc # "none"
             THEN [called EXCEPT !.outcome = "AssertionError"]
             ELSE [called EXCEPT !.outcome = "started", !.config = TRUE,
                                 !.proc = "running"]

\* OragonoController.kill_proc
OragonoKillProc ==
    /\ oragono.proc = "running"
    /\ oragono' = [oragono EXCEPT !.proc = "killed"]

Init == ClientInit /\ ServerInit /\ OragonoInit

Next ==
    \/ \E caps \in Offers, cap_ls \in BOOLEAN :
           NegotiateCapabilities(caps, cap_ls) /\ UNCHANGED <<server_vars, oragono>>
    \/ \E m \in ClientMessages : ReadCapLs(m) /\ UNCHANGED <<server_vars, oragono>>
    \/ \E m \in ClientMessages : LoopRead(m) /\ UNCHANGED <<server_vars, oragono>>
    \/ ClientTearDown /\ UNCHANGED <<server_vars, oragono>>

Spec == Init /\ [][Next]_vars

ServerNext ==
    \/ SetUp /\ UNCHANGED <<client_vars, oragono>>
    \/ \E name \in NameInputs \cup {NoName} : AddClient(name) /\ UNCHANGED <<client_vars, oragono>>
    \/ \E name \in NameInputs : RemoveClient(name) /\ UNCHANGED <<client_vars, oragono>>
    \/ TearDown /\ UNCHANGED <<client_vars, oragono>>

ServerSpec == Init /\ [][ServerNext]_vars

OragonoNext ==
    \/ \E o \in RunOptions :
           OragonoRun(o) /\ UNCHANGED <<client_vars, server_vars>>
    \/ OragonoKillProc /\ UNCHANGED <<client_vars, server_vars>>

OragonoSpec == Init /\ [][OragonoNext]_vars

\* The start of a client test and of a server test, side by side: the
\* socket and controller calls of the two roles up to the first connection,
\* and their tearDown.
LaunchNext ==
    \/ \E caps \in Offers, cap_ls \in BOOLEAN :
           NegotiateCapabilities(caps, cap_ls) /\ UNCHANGED <<server_vars, oragono>>
    \/ \E m \in {Msg("CAP", <<sLS>>), Msg("NICK", << <<"x">> >>)} :
           ReadCapLs(m) /\ UNCHANGED <<server_vars, oragono>>
    \/ ClientTearDown /\ UNCHANGED <<server_vars, oragono>>
    \/ SetUp /\ UNCHANGED <<client_vars, oragono>>
    \/ AddClient(NoName) /\ UNCHANGED <<client_vars, oragono>>
    \/ TearDown /\ UNCHANGED <<client_vars, oragono>>

LaunchSpec == Init /\ [][LaunchNext]_vars

\* A server test that connects one client and reads from it.  The test is
\* one thread: it calls a method only when none is in progress, while the
\* server sends and closes when it likes.
IoNames == {IntName(1)}

IoNext ==
    \/ SetUp /\ UNCHANGED <<client_vars, oragono>>
    \/ conns = <<>> /\ AddClient(NoName) /\ UNCHANGED <<client_vars, oragono>>
    \/ \E c \in 1..Len(conns), command \in Commands :
           ServerSends(c, command) /\ UNCHANGED <<client_vars, oragono>>
    \/ \E c \in 1..Len(conns) : ServerCloses(c) /\ UNCHANGED <<client_vars, oragono>>
    \/ \E name \in IoNames : GetLine(name) /\ UNCHANGED <<client_vars, oragono>>
    \/ \E name \in IoNames, pred \in Preds :
           GetMessage(name, pred) /\ UNCHANGED <<client_vars, oragono>>
    \/ GetMessageRead /\ UNCHANGED <<client_vars, oragono>>
    \/ \E name \in IoNames :
           GetMessagesStatement(name) /\ UNCHANGED <<client_vars, oragono>>
    \/ \E name \in IoNames : GetLinesStart(name) /\ UNCHANGED <<client_vars, oragono>>
    \/ GetLinesRecv /\ UNCHANGED <<client_vars, oragono>>

IoSpec == Init /\ [][IoNext]_vars

\* A server test that iterates over getMessages of its one client line by
\* line, and may read with getLine and getMessage between two lines.
IterNext ==
    \/ SetUp /\ UNCHANGED <<client_vars, oragono>>
    \/ conns = <<>> /\ AddClient(NoName) /\ UNCHANGED <<client_vars, oragono>>
    \/ \E c \in 1..Len(conns) :
           ServerSends(c, "PRIVMSG") /\ UNCHANGED <<client_vars, oragono>>
    \/ \E name \in IoNames : GetLine(name) /\ UNCHANGED <<client_vars, oragono>>
    \/ \E name \in IoNames :
           GetMessage(name, "none") /\ UNCHANGED <<client_vars, oragono>>
    \/ GetMessageRead /\ UNCHANGED <<client_vars, oragono>>
    \/ \E name \in IoNames : GetLinesIterate(name) /\ UNCHANGED <<client_vars, oragono>>
    \/ GetLinesRecv /\ UNCHANGED <<client_vars, oragono>>
    \/ \E c \in 1..Len(conns) : GetLinesResume(c) /\ UNCHANGED <<client_vars, oragono>>
    \/ \E c \in 1..Len(conns) : GetLinesClose(c) /\ UNCHANGED <<client_vars, oragono>>

IterSpec == Init /\ [][IterNext]_vars

\* A server test that connects several clients, writes to them, reads from
\* them and removes them.
PeerNames == {IntName(1), IntName(2)}

PeersNext ==
    \/ SetUp /\ UNCHANGED <<client_vars, oragono>>
    \/ /\ Len(conns) < MaxPeers /\ op.pc = "idle"
       /\ AddClient(NoName) /\ UNCHANGED <<client_vars, oragono>>
    \/ \E name \in PeerNames :
           op.pc = "idle" /\ RemoveClient(name) /\ UNCHANGED <<client_vars, oragono>>
    \/ \E c \in 1..Len(conns) :
           /\ lines_sent < MaxPeerLines
           /\ ServerSends(c, "PRIVMSG") /\ UNCHANGED <<client_vars, oragono>>
    \/ \E name \in PeerNames, line \in LinesToSend :
           ServerSendLine(name, line) /\ UNCHANGED <<client_vars, oragono>>
    \/ \E name \in PeerNames :
           GetMessage(name, "none") /\ UNCHANGED <<client_vars, oragono>>
    \/ GetMessageRead /\ UNCHANGED <<client_vars, oragono>>

PeersSpec == Init /\ [][PeersNext]_vars

\* ------------------------------------------------------------------ properties of the negotiation

\* A step of the loop that read one more message, and the message it read.
LoopStep == pc = "negotiating" /\ Len(received') = Len(received) + 1
LastRead == received'[Len(received')]

\* A CAP REQ that carries the one parameter the loop asserts it has.
IsCapReq(m) == m.command = "CAP" /\ Len(m.params) = 2 /\ m.params[1] = <<"R", "E", "Q">>

\* The bytes the step wrote to the connection.
NewBytes == Concat(SubSeq(sent', Len(sent) + 1, Len(sent')))

\* 'CAP <nick-or-*> <kind> :' for the nick captured so far.
ReplyHead(kind) ==
    <<"C", "A", "P", " ">>
    \o (IF nick = None \/ nick[1] = <<>> THEN <<"*">> ELSE nick[1])
    \o <<" ">> \o kind \o <<" ", ":">>

StartsWith(s, head) == Len(s) >= Len(head) /\ SubSeq(s, 1, Len(head)) = head

\* The bytes are one CRLF-terminated line: they end with CRLF and hold no other.
OneLine(bytes) ==
    /\ Len(bytes) >= 2
    /\ {i \in 1..(Len(bytes) - 1) : bytes[i] = "\r" /\ bytes[i + 1] = "\n"}
           = {Len(bytes) - 1}

\* An offered capability without its =value suffix.
StripValue(c) ==
    SubSeq(c, 1, CHOOSE k \in 0..Len(c) :
                     /\ (k = Len(c) \/ c[k + 1] = "=")
                     /\ \A j \in 1..k : c[j] # "=")

\* The offered capability names of the negotiation in progress.
OfferedNames == {StripValue(capabilities[i]) : i \in 1..Len(capabilities)}

\* C1: a CAP REQ whose requested set is a subset of the offered names is
\* answered by exactly one line, 'CAP <nick-or-*> ACK :' followed by the whole
\* requested string, and acked_capabilities becomes its old value united with
\* the requested set; no step of the loop removes an acknowledged capability.
C1_AckOnSubset ==
    [][ /\ (LoopStep /\ IsCapReq(LastRead)
                /\ Requested(LastRead.params[2]) \subseteq OfferedNames)
           => /\ NewBytes = ReplyHead(<<"A", "C", "K">>) \o LastRead.params[2] \o CRLF
              /\ OneLine(NewBytes)
              /\ acked_capabilities' =
                     Some(acked_capabilities[1] \cup Requested(LastRead.params[2]))
        /\ (pc = "negotiating" /\ calls' = calls)
           => acked_capabilities[1] \subseteq acked_capabilities'[1]
      ]_vars

\* C1 witness: two requests were acknowledged, the second one 104 characters
\* long and sent back whole, and the acknowledged set grew from {a} to {a, b}.
C1_Witness ==
    /\ pc = "negotiating"
    /\ received = << Msg("CAP", <<sLS>>), Msg("CAP", <<sREQ, <<"a">> >>),
                     Msg("CAP", <<sREQ, Rep(<<"a", " ", "b", " ">>, 26)>>) >>
    /\ acked_capabilities = Some({<<"a">>, <<"b">>})
    /\ Len(sent) = 6
    /\ Len(sent[5]) = 11 + 104

\* C2: a CAP REQ whose requested set is not a subset of the offered names is
\* answered by exactly one line, which is a NAK, and acked_capabilities is
\* left as it was.
C2_NakOnNonSubset ==
    [][ (LoopStep /\ IsCapReq(LastRead)
             /\ ~(Requested(LastRead.params[2]) \subseteq OfferedNames))
        => /\ OneLine(NewBytes)
           /\ StartsWith(NewBytes, ReplyHead(<<"N", "A", "K">>))
           /\ acked_capabilities' = acked_capabilities
      ]_vars

\* C2 witness: after 'a' was acknowledged, 'a c' (one name offered, one not)
\* was refused and the acknowledged set is still {a}.
C2_Witness ==
    /\ pc = "negotiating"
    /\ capabilities = << <<"a">>, <<"b">> >>
    /\ received = << Msg("CAP", <<sLS>>), Msg("CAP", <<sREQ, <<"a">> >>),
                     Msg("CAP", <<sREQ, <<"a", " ", "c">> >>) >>
    /\ acked_capabilities = Some({<<"a">>})
    /\ Len(sent) = 6
    /\ sent[5] = <<"C", "A", "P", " ", "*", " ", "N", "A", "K", " ", ":", "a", " ", "c">>

\* C3: whenever acked_capabilities exists, it is a subset of the offered
\* capability names (the offer without its =value suffixes).
C3_AckedSubsetOfOffered ==
    acked_capabilities # None => acked_capabilities[1] \subseteq OfferedNames

\* C3 witness: 'a=v' and 'b' are offered and {a, b} is acknowledged.
C3_Witness ==
    /\ capabilities = << <<"a", "=", "v">>, <<"b">> >>
    /\ acked_capabilities = Some({<<"a">>, <<"b">>})
    /\ pc = "negotiating"

\* C4 as stated: when the first message read is not CAP, the negotiation is
\* skipped without failing the test and a NICK or USER is captured.
C4_LegacyClientSkipped ==
    (Len(received) >= 1 /\ received[1].command # "CAP")
    => /\ failure = ""
       /\ pc = "skipped"
       /\ (received[1].command = "NICK" /\ Len(received[1].params) = 1)
          => nick = Some(received[1].params[1])
       /\ (received[1].command = "USER" /\ Len(received[1].params) = 4)
          => user = Some(received[1].params)

\* C4 amended: when the first message read is not CAP, the test fails with
\* the assertion 'First message is not CAP LS.'; up to tearDown nothing was
\* sent, no further message is read, and neither nick nor user is captured.
C4_NonCapFirstFailsTest ==
    (Len(received) >= 1 /\ received[1].command # "CAP" /\ teardowns = 0)
    => /\ pc = "failed"
       /\ failure = "AssertionError: First message is not CAP LS."
       /\ Len(received) = 1
       /\ sent = <<>>
       /\ nick = None
       /\ user = None
       /\ ret = None
       /\ protocol_version = "unset"
       /\ acked_capabilities = None

\* C4 witness: a legacy client's NICK x was the first message read.
C4_Witness ==
    /\ received = << Msg("NICK", << <<"x">> >>) >>
    /\ pc = "failed"

\* C5: CAP LS gives version 301, CAP LS 302 gives 302, and a first CAP END
\* gives version None, upon which the call returns having sent nothing and
\* read nothing more (tearDown's QUIT comes after the test body).
C5_FirstCapSelectsVersion ==
    (Len(received) >= 1 /\ received[1].command = "CAP")
    => /\ received[1].params = << <<"L", "S">> >> => protocol_version = "301"
       /\ received[1].params = << <<"L", "S">>, <<"3", "0", "2">> >>
          => protocol_version = "302"
       /\ (received[1].params = << <<"E", "N", "D">> >> /\ calls = 1
               /\ teardowns = 0)
          => /\ protocol_version = "None"
             /\ pc = "skipped"
             /\ ret = None
             /\ sent = <<>>
             /\ Len(received) = 1

\* C5 witness: the client opened with CAP END.
C5_Witness ==
    /\ received = << Msg("CAP", <<sEND>>) >>
    /\ pc = "skipped"
    /\ protocol_version = "None"

\* C6: after CAP LS 302 then CAP END, the call has returned the CAP END
\* message with acked_capabilities empty and protocol_version 302.
C6_Ls302ThenEnd ==
    (calls = 1 /\ Len(received) >= 2
         /\ received[1] = Msg("CAP", << <<"L", "S">>, <<"3", "0", "2">> >>)
         /\ received[2] = Msg("CAP", << <<"E", "N", "D">> >>))
    => /\ pc = "returned"
       /\ ret = Some(received[2])
       /\ acked_capabilities = Some({})
       /\ protocol_version = "302"
       /\ Len(received) = 2

\* C6 witness: the two messages were read and the call returned.
C6_Witness ==
    /\ calls = 1
    /\ received = << Msg("CAP", <<sLS, s302>>), Msg("CAP", <<sEND>>) >>
    /\ pc = "returned"

\* A message that ends the loop: any command other than NICK, USER and CAP,
\* or a CAP subcommand other than REQ.
EndsNegotiation(m) ==
    \/ m.command \notin {"NICK", "USER", "CAP"}
    \/ m.command = "CAP" /\ Len(m.params) > 0 /\ m.params[1] # <<"R", "E", "Q">>

C8_NickUserCaptured ==
    [][ /\ (LoopStep /\ LastRead.command = "NICK" /\ Len(LastRead.params) = 1)
           => /\ nick' = Some(LastRead.params[1])
              /\ pc' = "negotiating" /\ ret' = None /\ failure' = ""
              /\ sent' = sent /\ user' = user
        /\ (LoopStep /\ LastRead.command = "USER" /\ Len(LastRead.params) = 4)
           => /\ user' = Some(LastRead.params)
              /\ pc' = "negotiating" /\ ret' = None /\ failure' = ""
              /\ sent' = sent /\ nick' = nick
        /\ (LoopStep /\ \/ LastRead.command = "NICK" /\ Len(LastRead.params) # 1
                        \/ LastRead.command = "USER" /\ Len(LastRead.params) # 4)
           => /\ pc' = "failed" /\ failure' # "" /\ ret' = None
              /\ sent' = sent /\ nick' = nick /\ user' = user
        /\ (pc = "failed" /\ teardowns' = teardowns)
           => (received' = received /\ sent' = sent)
      ]_vars

\* C8 witness: NICK x and USER a b c d were read in the loop, both are
\* stored and the loop is still reading.
C8_Witness ==
    /\ pc = "negotiating"
    /\ received = << Msg("CAP", <<sLS>>), Msg("NICK", << <<"x">> >>),
                     Msg("USER", << <<"a">>, <<"b">>, <<"c">>, <<"d">> >>) >>
    /\ nick = Some(<<"x">>)
    /\ user = Some(<< <<"a">>, <<"b">>, <<"c">>, <<"d">> >>)

\* C9: the string a NAK line carries is the requested string cut to its
\* first 100 characters, and the requested string itself when it is shorter.
C9_NakEchoCutAt100 ==
    [][ (LoopStep /\ IsCapReq(LastRead)
             /\ StartsWith(NewBytes, ReplyHead(<<"N", "A", "K">>)))
        => NewBytes = ReplyHead(<<"N", "A", "K">>)
                      \o SubSeq(LastRead.params[2], 1,
                                IF Len(LastRead.params[2]) <= 100
                                THEN Len(LastRead.params[2]) ELSE 100)
                      \o CRLF
      ]_vars

\* C9 witness: a request of 101 characters was refused with its first 100.
C9_Witness ==
    /\ pc = "negotiating"
    /\ received = << Msg("CAP", <<sLS>>), Msg("CAP", <<sREQ, Rep(<<"x">>, 101)>>) >>
    /\ sent[3] = <<"C", "A", "P", " ", "*", " ", "N", "A", "K", " ", ":">>
                 \o Rep(<<"x">>, 100)
    /\ sent[4] = CRLF

\* ------------------------------------------------------------------ properties of the client role's tearDown

\* C11: once tearDown has been run, whatever the test body did before (it
\* may have ended before any client connection was accepted), the
\* controller's process does not run any more and the listening socket is
\* closed.
C11_TeardownKillsAndCloses ==
    teardowns >= 1 => (proc # "running" /\ server = "closed")

\* C12: tearDown is idempotent: a tearDown call that follows a tearDown call
\* which completed does not raise.
C12_TeardownIdempotent ==
    [][ (teardowns >= 1 /\ teardown_error = "" /\ teardowns' = teardowns + 1)
        => teardown_error' = "" ]_vars

\* ------------------------------------------------------------------ properties of the server role

\* C10: once tearDown has run, the controller's process is killed, the
\* clients dict is empty and every connection addClient opened is closed.
C10_TeardownClosesAll ==
    phase = "done"
    => /\ srv_proc = "killed"
       /\ DOMAIN clients = {}
       /\ \A i \in 1..Len(conns) : conns[i] = "closed"

\* The integer a key of self.clients stands for: itself, or the value of a
\* string of digits; a key that is no number stands for none.
KeyNumbers(cl) ==
    {k.num : k \in {x \in DOMAIN cl : x.kind = "int"}}
    \cup {DecimalValue(k.text) :
              k \in {x \in DOMAIN cl :
                         /\ x.kind = "str" /\ x.text # <<>>
                         /\ \A i \in 1..Len(x.text) :
                                \E d \in 1..10 : Digits[d] = x.text[i]}}

\* C17: whatever clients exist, names given as strings included, addClient()
\* without a name returns the largest existing number (0 when there is none)
\* plus one, a name no existing client has, and stores the new connection
\* under it.
C17_AddClientReturnsNextId ==
    [][ (last_call'.name = "addClient" /\ last_call'.client = NoName)
        => LET n == IntName(SetMax(KeyNumbers(clients) \cup {0}) + 1)
           IN  /\ n \notin DOMAIN clients
               /\ last_added' = Some(n)
               /\ Len(conns') = Len(conns) + 1
               /\ n \in DOMAIN clients' /\ clients'[n] = Len(conns')
               /\ phase' = phase ]_vars

\* ------------------------------------------------------------------ properties of the controllers

\* What unittest records for the test: the exception that ended the test
\* body (a SkipTest is a skip, any other a failure) and, on top of it, an
\* error for an exception of tearDown; an exception of setUp alone when it
\* is setUp that raised.
ClientOutcome ==
    (IF failure = NotImplementedByController THEN {"skipped"}
     ELSE IF failure # "" THEN {"failed"} ELSE {})
    \cup (IF teardown_error # "" THEN {"errored"} ELSE {})
ServerOutcome ==
    IF phase = "skipped" THEN {"skipped"}
    ELSE IF phase = "aborted" THEN {"failed"} ELSE {}

\* C19: a test in which controller.run raised NotImplementedByController is
\* recorded as skipped and as nothing else, in the client role (run is called
\* in the test body, tearDown follows) and in the server role (run is called
\* in setUp).
C19_UnsupportedMeansSkipped ==
    /\ (failure = NotImplementedByController /\ teardowns >= 1)
       => ClientOutcome = {"skipped"}
    /\ phase = "skipped" => ServerOutcome = {"skipped"}

\* An option of run that was passed with a value: a password, ssl=True, a
\* non-empty list of keys.
Passed(o) ==
    { n \in {"password", "ssl", "restricted_metadata_keys",
              "valid_metadata_keys", "invalid_metadata_keys"} :
        \/ n = "password" /\ o.password # <<>>
        \/ n = "ssl" /\ o.ssl
        \/ n = "restricted_metadata_keys"
              /\ o.restricted_metadata_keys \notin {<<>>, << <<>> >>}
        \/ n = "valid_metadata_keys"
              /\ o.valid_metadata_keys \notin {<<>>, << <<>> >>}
        \/ n = "invalid_metadata_keys"
              /\ o.invalid_metadata_keys \notin {<<>>, << <<>> >>} }

\* C20: a call of OragonoController.run that was passed any of its five
\* options, none of which the controller implements, raises
\* NotImplementedByController; and a call that raises it has spawned no
\* process and written no configuration.
C20_UnsupportedOptionsRaise ==
    [][ oragono'.runs = oragono.runs + 1
        => /\ Passed(oragono'.options) # {}
              => oragono'.outcome = "SkipTest: NotImplementedByController"
           /\ oragono'.outcome = "SkipTest: NotImplementedByController"
              => (oragono'.proc = oragono.proc
                  /\ oragono'.config = oragono.config) ]_vars


\* The lines of a connection that no read has returned yet, oldest first:
\* those conn_file has buffered, then those the socket still holds.
Pending(c) == io[c].file \o io[c].sock
PendingAfter(c) == io'[c].file \o io'[c].sock

\* The connection a getMessage or getLines call in progress reads.
OpConn == clients[op.client]

\* The server has closed the connection and nothing of it is left to read.
AtEndOfStream(c) == io[c].eof /\ Pending(c) = <<>>

\* C13: a recv of getLines that finds nothing to read, the call having read
\* nothing before, ends the call with the empty sequence, whether the server
\* keeps the connection open or has closed it.
C13_DrainTerminatesEmpty ==
    [][ (op.pc = "getLines" /\ op' # op
             /\ op.data = <<>> /\ io[OpConn].sock = <<>>)
        => (op'.pc = "idle" /\ result' = Returned("messages", <<>>)) ]_vars

\* C14: a getLine, called by the test or by getMessage, on a connection the
\* server has closed and of which nothing is left to read ends in an
\* exception; it returns no line.
C14_ReadAtEndOfStreamFails ==
    [][ /\ (op.pc = "idle" /\ last_call'.name = "getLine"
                /\ last_call'.client \in DOMAIN clients
                /\ AtEndOfStream(clients[last_call'.client])
                /\ lines_sent' = lines_sent)
           => result'.kind = "error"
        /\ (op.pc = "getMessage" /\ op' # op /\ op.client \in DOMAIN clients
                /\ AtEndOfStream(OpConn))
           => (result'.kind = "error" /\ op'.pc = "idle") ]_vars

\* A step of getMessage's loop that took a line from the connection.
GetMessageTook ==
    /\ op.pc = "getMessage" /\ op.client \in DOMAIN clients
    /\ Len(PendingAfter(OpConn)) < Len(Pending(OpConn))

C16_StatementConsumesPending ==
    [][ (last_call' # last_call /\ last_call'.name = "getMessages"
             /\ last_call'.client \in DOMAIN clients)
        => PendingAfter(clients[last_call'.client]) = <<>> ]_vars

\* ------------------------------------------------------------------ properties of the server role's clients

\* Connection c is left as it was: its status and its lines, read and written.
Untouched(c) == conns'[c] = conns[c] /\ io'[c] = io[c]

\* C18: removeClient(p) of an existing p closes p's connection, writes
\* nothing, deletes p and leaves every other entry and connection as it was;
\* removeClient of an unknown name fails and changes nothing; a sendLine to p
\* changes nothing but what was written to p's connection, and a line
\* getMessage takes for p changes nothing but p's pending lines.
C18_OnlyOwnConnectionTouched ==
    [][ /\ (last_call'.name = "removeClient"
                /\ (clients' # clients \/ phase' # phase))
           => LET p == last_call'.client
              IN  IF p \in DOMAIN clients
                  THEN /\ conns[clients[p]] = "open"
                       /\ conns'[clients[p]] = "closed"
                       /\ io' = io
                       /\ DOMAIN clients' = DOMAIN clients \ {p}
                       /\ \A q \in DOMAIN clients' : clients'[q] = clients[q]
                       /\ \A c \in 1..Len(conns) :
                              c # clients[p] => Untouched(c)
                       /\ phase' = phase
                  ELSE /\ phase' = "aborted"
                       /\ clients' = clients /\ conns' = conns /\ io' = io
        /\ (last_call'.name = "sendLine" /\ lines_sent' = lines_sent
                /\ last_call'.client \in DOMAIN clients)
           => LET c == clients[last_call'.client]
              IN  /\ clients' = clients /\ conns' = conns
                  /\ io' = [io EXCEPT ![c].out = io'[c].out]
                  /\ Len(io'[c].out) > Len(io[c].out)
        /\ GetMessageTook
           => /\ clients' = clients /\ conns' = conns
              /\ \A c \in 1..Len(conns) : c # OpConn => Untouched(c)
              /\ io'[OpConn].out = io[OpConn].out
              /\ io'[OpConn].eof = io[OpConn].eof ]_vars

\* C18 witness: of two clients that were both written to and both had a line
\* pending, client 1 was removed: its connection is closed, and client 2 is
\* in the dict with its connection open, its line pending and what was
\* written to it.
C18_Witness ==
    /\ last_call = Call("removeClient", IntName(1))
    /\ DOMAIN clients = {IntName(2)}
    /\ conns = <<"closed", "open">>
    /\ Pending(1) # <<>> /\ Pending(2) # <<>>
    /\ io[1].out # <<>> /\ io[2].out # <<>>
    /\ phase = "test"

\* Event e occurs in log before position i.
Earlier(log, e, i) == \E j \in 1..(i - 1) : log[j] = e

\* C21: the harness knows the host and port before it launches the
\* implementation.  Client role: the listening socket is bound and listening,
\* and its address read, before every controller.run, and a connection is
\* accepted only after a run.  Server role: host and port are discovered
\* before controller.run, and no client connection is attempted before it.
C21_AddressKnownBeforeLaunch ==
    /\ \A i \in 1..Len(events) :
           /\ events[i] = "listen" => Earlier(events, "bind", i)
           /\ events[i] = "run" => /\ Earlier(events, "listen", i)
                                   /\ i > 1 /\ events[i - 1] = "getsockname"
           /\ events[i] = "accept" => i > 1 /\ events[i - 1] = "run"
    /\ \A i \in 1..Len(srv_events) :
           /\ srv_events[i] = "run" => Earlier(srv_events, "discover", i)
           /\ srv_events[i] = "connect" => Earlier(srv_events, "run", i)
    /\ proc # "none" => Earlier(events, "run", Len(events) + 1)
    /\ conn # "none" => Earlier(events, "accept", Len(events) + 1)
    /\ srv_proc # "none" => Earlier(srv_events, "run", Len(srv_events) + 1)
    /\ conns # <<>> => Earlier(srv_events, "connect", Len(srv_events) + 1)

\* C21 witness: both roles launched their implementation and have their first
\* connection: the client test accepted the client, the server test
\* connected a client.
C21_Witness ==
    /\ events = <<"bind", "listen", "getsockname", "run", "accept">>
    /\ proc = "running" /\ conn = "open"
    /\ srv_events = <<"discover", "run", "connect">>
    /\ srv_proc = "running" /\ Len(conns) = 1

\* C22: every line the harness writes to a connection is terminated by
\* exactly one CRLF: what a step writes to the client under test, tearDown's
\* QUIT included, and what sendLine writes to a server connection, is one
\* line ending in CRLF.
C22_EveryWriteOneCRLF ==
    [][ /\ Len(sent') > Len(sent) => OneLine(NewBytes)
        /\ \A c \in 1..Len(io) :
               (c <= Len(io') /\ Len(io'[c].out) > Len(io[c].out))
               => OneLine(Concat(SubSeq(io'[c].out, Len(io[c].out) + 1,
                                        Len(io'[c].out)))) ]_vars

\* The payloads sent so far that begin a 'CAP * LS' line.
LsPayloads == {i \in 1..Len(sent) : StartsWith(sent[i], <<"C", "A", "P", " ", "*", " ", "L", "S">>)}

\* C23: a negotiation started with CAP LS sends the offered list as exactly
\* one 'CAP * LS' line: the step that reads the client's CAP LS writes
\* 'CAP * LS :' and the offered capabilities joined by spaces as one line,
\* nothing was written before it (so it precedes every ACK and NAK), and no
\* other step writes a 'CAP * LS' line.
C23_OneLsLineBeforeReplies ==
    [][ /\ (pc = "awaiting_ls" /\ pc' = "negotiating")
           => /\ LastRead.command = "CAP"
              /\ LastRead.params \in {<<sLS>>, <<sLS, s302>>}
              /\ sent = <<>>
              /\ NewBytes = <<"C", "A", "P", " ", "*", " ", "L", "S", " ", ":">>
                                \o Join(capabilities, <<" ">>) \o CRLF
              /\ OneLine(NewBytes)
        /\ ~(pc = "awaiting_ls" /\ pc' = "negotiating")
           => \A i \in (Len(sent) + 1)..Len(sent') : i \notin LsPayloads'
        /\ LsPayloads' \subseteq {1} ]_vars

\* C23 witness: the client's CAP LS was answered with the LS line and its
\* CAP REQ after it with an ACK: four payloads, of which only the first is
\* an LS line.
C23_Witness ==
    /\ pc = "negotiating"
    /\ Len(received) = 2 /\ IsCapReq(received[2])
    /\ Len(sent) = 4
    /\ LsPayloads = {1}
    /\ StartsWith(sent[3], <<"C", "A", "P", " ", "*", " ", "A", "C", "K">>)

\* C24: a CAP REQ is matched against the offered names with their '=value'
\* stripped.  For every offered capability c, a request for the name of c
\* alone is answered with ACK and the name is added to the acknowledged set;
\* a request for one token that is not the stripped name of an offered
\* capability, the full 'name=value' of c included, is answered with NAK and
\* acknowledges nothing.
C24_MatchedOnStrippedNames ==
    [][ (LoopStep /\ IsCapReq(LastRead) /\ calls' = calls)
        => LET t == LastRead.params[2]
           IN  \A i \in 1..Len(capabilities) :
                   LET c == capabilities[i]
                   IN  /\ t = StripValue(c)
                          => /\ StartsWith(NewBytes, ReplyHead(<<"A", "C", "K">>))
                             /\ t \in acked_capabilities'[1]
                       /\ (/\ Requested(t) = {t}
                           /\ \A j \in 1..Len(capabilities) :
                                  t # StripValue(capabilities[j]))
                          => /\ StartsWith(NewBytes, ReplyHead(<<"N", "A", "K">>))
                             /\ t \notin acked_capabilities'[1]
                       /\ (t = c /\ c # StripValue(c))
                          => StartsWith(NewBytes, ReplyHead(<<"N", "A", "K">>))
      ]_vars

\* C24 witness: with 'a=v' offered, the client requested 'a', which was
\* acknowledged, and then 'a=v', which was refused.
C24_Witness ==
    /\ capabilities = << <<"a", "=", "v">>, <<"b">> >>
    /\ received = << Msg("CAP", <<sLS>>), Msg("CAP", <<sREQ, <<"a">> >>),
                     Msg("CAP", <<sREQ, <<"a", "=", "v">> >>) >>
    /\ acked_capabilities = Some({<<"a">>})
    /\ Len(sent) = 6
    /\ StartsWith(sent[3], <<"C", "A", "P", " ", "*", " ", "A", "C", "K">>)
    /\ StartsWith(sent[5], <<"C", "A", "P", " ", "*", " ", "N", "A", "K">>)

\* s is a prefix of t.
IsPrefix(s, t) == Len(s) <= Len(t) /\ SubSeq(t, 1, Len(s)) = s

\* C25: for every connection and every interleaving of getMessage with fully
\* consumed getMessages, the lines the reads returned, in the order they
\* returned them, are a prefix of the lines the server sent on it: each line
\* at most once and none before an earlier one.
C25_DeliveredIsPrefixOfSent ==
    \A c \in 1..Len(io) : IsPrefix(io[c].got, io[c].wire)

\* A getLine or a getMessage took a line from connection c with readline:
\* the reads returned one line more, and no getLines generator yielded it.
ReadlineTook(c) ==
    /\ Len(io'[c].got) = Len(io[c].got) + 1
    /\ io'[c].gen = io[c].gen
    /\ op.pc # "getLines"

\* C26: whenever getLine or getMessage reads a connection with readline, its
\* socket is in blocking mode: the non-blocking mode getLines sets is
\* restored before every later readline, also while the sequence getMessages
\* returned is partly consumed or still iterated.
C26_ReadlineOnBlockingSocket ==
    [][ /\ \A c \in 1..Len(io) :
               (c <= Len(io') /\ ReadlineTook(c)) => io[c].blocking
        /\ (op'.pc = "getMessage" /\ op'.client \in DOMAIN clients')
           => io'[clients'[op'.client]].blocking ]_vars

====
